---- MODULE Spec2Model ----
(***************************************************************************)
(* Model of the Uber Ads MCP server: the tool dispatcher (server.py), the  *)
(* remote client (uber_ads_client.py) and the schema layer (types.py).     *)
(*                                                                         *)
(* One tool invocation is a run  idle -> sending -> responded -> done:     *)
(*   CallTool      call_tool dispatches on the name, the handler validates *)
(*                 the arguments and the client builds the request;        *)
(*   SendAttempt   one HTTP attempt of session.request, answered by the    *)
(*                 remote, and the decision of urllib3's Retry to send     *)
(*                 another one;                                            *)
(*   Complete      the rest of _make_request, the client operation's       *)
(*                 normalisation and the handler's envelope;               *)
(*   Return        the envelope is handed to the transport adapter.        *)
(*                                                                         *)
(* Text (messages, paths) is a sequence of fragments: an f-string          *)
(* f"prefix: {x}" is <<"prefix: ">> \o x.                                  *)
(***************************************************************************)
EXTENDS Integers, Sequences, FiniteSets, TLC

(***************************************************************************)
(* Bounds of the model.                                                    *)
(***************************************************************************)
\* longest list of entities in a response body
MaxItems == 2
\* longest campaign_ids / metrics argument list
MaxIds == 2

(***************************************************************************)
(* JSON values, tagged with their Python type.                             *)
(***************************************************************************)
JStr(s)  == [k |-> "str",  s |-> s,  n |-> 0, l |-> <<>>]
JInt(n)  == [k |-> "int",  s |-> "", n |-> n, l |-> <<>>]
JList(l) == [k |-> "list", s |-> "", n |-> 0, l |-> l]
JNull    == [k |-> "null", s |-> "", n |-> 0, l |-> <<>>]
\* marks a key that the mapping does not hold (never a value of a mapping)
Absent   == [k |-> "absent", s |-> "", n |-> 0, l |-> <<>>]

\* Python truthiness, as tested by "if x:"
Truthy(v) ==
    CASE v.k = "null" -> FALSE
      [] v.k = "int"  -> v.n # 0
      [] v.k = "str"  -> v.s # ""
      [] v.k = "list" -> v.l # <<>>
      [] OTHER        -> FALSE

EmptyMap == [f \in {} |-> JNull]
\* the mapping holding the keys of ch whose choice is not Absent
MkMap(ch) == [f \in {g \in DOMAIN ch : ch[g] # Absent} |-> ch[f]]
\* dict.get(key), None when the key is missing
Get(m, key) == IF key \in DOMAIN m THEN m[key] ELSE JNull

SeqsUpTo(S, n) == UNION {[1..i -> S] : i \in 0..n}

(***************************************************************************)
(* Schema layer (types.py).  The records are pydantic v2 models with the   *)
(* default configuration: extra keys are ignored (extra = "ignore") and    *)
(* validation is lax, so an int field accepts a numeric string and turns   *)
(* it into the number, while a str field accepts only a str.               *)
(***************************************************************************)
DefaultLimit  == 50
DefaultOffset == 0
ArgStatus      == {"ACTIVE", "PAUSED", "ARCHIVED"}
CampaignStatus == {"ACTIVE", "PAUSED", "ARCHIVED", "DRAFT"}
BudgetTypes    == {"DAILY", "LIFETIME"}

\* int(s) for the strings of the model; a string outside the table is no number
NumericStrings == {"10", "0"}
ParseInt(s) == CASE s = "10" -> 10 [] s = "0" -> 0 [] OTHER -> 0

\* field: str (required)
StrFieldOk(m, f) == f \in DOMAIN m /\ m[f].k = "str"
\* field: Optional[int] = default
OptIntFieldOk(m, f) ==
    f \in DOMAIN m =>
        \/ m[f].k \in {"int", "null"}
        \/ m[f].k = "str" /\ m[f].s \in NumericStrings
OptIntField(m, f, default) ==
    IF f \notin DOMAIN m THEN JInt(default)
    ELSE IF m[f].k = "str" THEN JInt(ParseInt(m[f].s))
    ELSE m[f]
\* field: Optional[Literal[...]] = None
OptLiteralFieldOk(m, f, allowed) ==
    f \in DOMAIN m => \/ m[f].k = "null"
                      \/ m[f].k = "str" /\ m[f].s \in allowed
\* field: List[str] (required)
StrListFieldOk(m, f) == f \in DOMAIN m /\ m[f].k = "list"
\* field: Optional[List[str]] = None
OptStrListFieldOk(m, f) == f \in DOMAIN m => m[f].k \in {"list", "null"}

\* the declared fields that fail, in declaration order: what str(e) lists
Failing(fields, ok) == SelectSeq(fields, LAMBDA f : ~ok[f])

GetCampaignsArgs(m) ==
    LET ok == [f \in {"ad_account_id", "limit", "offset", "status"} |->
                 CASE f = "ad_account_id" -> StrFieldOk(m, f)
                   [] f = "limit"         -> OptIntFieldOk(m, f)
                   [] f = "offset"        -> OptIntFieldOk(m, f)
                   [] f = "status"        -> OptLiteralFieldOk(m, f, ArgStatus)]
        errs == Failing(<<"ad_account_id", "limit", "offset", "status">>, ok)
    IN  [ok   |-> errs = <<>>,
         errs |-> errs,
         args |-> IF errs # <<>> THEN EmptyMap
                  ELSE [f \in DOMAIN ok |->
                          CASE f = "ad_account_id" -> m[f]
                            [] f = "limit"  -> OptIntField(m, f, DefaultLimit)
                            [] f = "offset" -> OptIntField(m, f, DefaultOffset)
                            [] f = "status" -> Get(m, f)]]

GetCampaignDetailsArgs(m) ==
    LET ok == [f \in {"ad_account_id", "campaign_id"} |-> StrFieldOk(m, f)]
        errs == Failing(<<"ad_account_id", "campaign_id">>, ok)
    IN  [ok   |-> errs = <<>>,
         errs |-> errs,
         args |-> IF errs # <<>> THEN EmptyMap ELSE [f \in DOMAIN ok |-> m[f]]]

GetCampaignStatsArgs(m) ==
    LET F  == {"ad_account_id", "campaign_ids", "start_date", "end_date", "metrics"}
        ok == [f \in F |->
                 CASE f = "campaign_ids" -> StrListFieldOk(m, f)
                   [] f = "metrics"      -> OptStrListFieldOk(m, f)
                   [] OTHER              -> StrFieldOk(m, f)]
        errs == Failing(<<"ad_account_id", "campaign_ids", "start_date",
                          "end_date", "metrics">>, ok)
    IN  [ok   |-> errs = <<>>,
         errs |-> errs,
         args |-> IF errs # <<>> THEN EmptyMap ELSE [f \in F |-> Get(m, f)]]

\* GetCampaignsOptions(limit=, offset=, status=): the other fields default to None
GetCampaignsOptions(args) ==
    [limit      |-> args["limit"],
     offset     |-> args["offset"],
     status     |-> args["status"],
     objective  |-> JNull,
     sort_by    |-> JNull,
     sort_order |-> JNull]

(***************************************************************************)
(* Remote client (uber_ads_client.py): request construction.               *)
(***************************************************************************)
NoRequest == [endpoint |-> <<>>, params |-> EmptyMap]

\* UberAdsClient.get_campaigns, the query built from the options
get_campaigns_params(options) ==
    MkMap([p \in {"limit", "offset", "status", "sort_by", "sort_order"} |->
             IF Truthy(options[p]) THEN options[p] ELSE Absent])

\* get_campaign_stats with params["campaign_ids"] = campaign_id in the loop:
\* the key keeps the last entry only
get_campaign_stats_params_LastIdOnly(campaign_ids, start_date, end_date, metrics) ==
    MkMap([p \in {"start_date", "end_date", "campaign_ids", "metrics"} |->
             CASE p = "start_date"   -> start_date
               [] p = "end_date"     -> end_date
               [] p = "campaign_ids" ->
                    IF campaign_ids.l # <<>>
                    THEN JList(<<campaign_ids.l[Len(campaign_ids.l)]>>) ELSE Absent
               [] p = "metrics"      -> IF Truthy(metrics)
                                        THEN JList(metrics.l) ELSE Absent])

\* UberAdsClient.get_campaign_stats, the query built from the arguments:
\* setdefault(key, []).append(x) creates the key with the first entry only
get_campaign_stats_params(campaign_ids, start_date, end_date, metrics) ==
    MkMap([p \in {"start_date", "end_date", "campaign_ids", "metrics"} |->
             CASE p = "start_date"   -> start_date
               [] p = "end_date"     -> end_date
               [] p = "campaign_ids" -> IF campaign_ids.l # <<>>
                                        THEN JList(campaign_ids.l) ELSE Absent
               [] p = "metrics"      -> IF Truthy(metrics)
                                        THEN JList(metrics.l) ELSE Absent])

\* the request each client operation hands to _make_request
RequestOf(name, args) ==
    CASE name = "get_ad_accounts" ->
           [endpoint |-> <<"/v1/ads">>, params |-> EmptyMap]
      [] name = "get_campaigns" ->
           [endpoint |-> <<"/v1/ads/", args["ad_account_id"].s, "/campaigns">>,
            params   |-> get_campaigns_params(GetCampaignsOptions(args))]
      [] name = "get_campaign_details" ->
           [endpoint |-> <<"/v1/ads/", args["ad_account_id"].s, "/campaigns/",
                           args["campaign_id"].s>>,
            params   |-> EmptyMap]
      [] name = "get_campaign_stats" ->
           [endpoint |-> <<"/v1/ads/", args["ad_account_id"].s,
                           "/reports/campaigns">>,
            params   |-> get_campaign_stats_params(args["campaign_ids"],
                            args["start_date"], args["end_date"], args["metrics"])]

(***************************************************************************)
(* The remote: what one HTTP attempt can be answered with.                 *)
(***************************************************************************)
EntityIds == {"e1", "e2"}
EntityName(id) == IF id = "e1" THEN "Camp A" ELSE "Camp B"
\* an entity as the remote sends it; complete = it holds every required field
\* of the entity class of the endpoint, each of the right type (status and
\* budget_type are strings, inside or outside the Literals of Campaign)
RawEntities ==
    {e \in [id : EntityIds, name : {"Camp A", "Camp B"},
            status : {"ACTIVE", "DELETED"}, budget_type : {"DAILY", "WEEKLY"},
            complete : BOOLEAN] :
        /\ e.name = EntityName(e.id)
        /\ ~(e.status = "DELETED" /\ e.budget_type = "WEEKLY")
        /\ ~e.complete => (e.status = "ACTIVE" /\ e.budget_type = "DAILY")}
\* the mapping {} (no field at all)
EmptyObject == [id |-> "", name |-> "", status |-> "", budget_type |-> "",
                complete |-> FALSE]

NoBody == [shape |-> "empty", items |-> <<>>, msg |-> ""]
SuccessBodies ==
    {NoBody, [shape |-> "notjson", items |-> <<>>, msg |-> ""]}
    \cup {[shape |-> sh, items |-> <<e>>, msg |-> ""] :
             sh \in {"obj", "data_obj"}, e \in RawEntities}
    \cup {[shape |-> sh, items |-> l, msg |-> ""] :
             sh \in {"list", "data_list"}, l \in SeqsUpTo(RawEntities, MaxItems)}
\* {"error": {"message": M}} or text that is no JSON
ErrorBodies ==
    {[shape |-> "error_obj", items |-> <<>>, msg |-> "M1"],
     [shape |-> "notjson",   items |-> <<>>, msg |-> ""]}

StatusForcelist       == {429, 500, 502, 503, 504}
\* urllib3 Retry.RETRY_AFTER_STATUS_CODES, honoured because
\* respect_retry_after_header is left at its default (True)
RetryAfterStatusCodes == {413, 429, 503}
NonTransientStatuses  == {400, 401, 403, 404, 413}
SuccessStatuses       == {200}

ConnFail == [conn |-> FALSE, status |-> 0, retry_after |-> FALSE, body |-> NoBody]
Responses ==
    {ConnFail}
    \cup {[conn |-> TRUE, status |-> st, retry_after |-> FALSE, body |-> b] :
             st \in SuccessStatuses, b \in SuccessBodies}
    \cup {[conn |-> TRUE, status |-> st, retry_after |-> ra, body |-> b] :
             st \in StatusForcelist \cup NonTransientStatuses,
             ra \in BOOLEAN, b \in ErrorBodies}

(***************************************************************************)
(* Remote client: the retry policy mounted on the session.                 *)
(***************************************************************************)
\* Retry(total=3): the number of retries allowed after the first attempt
RetryTotal == 3

\* is_retry with every error status taken for a transient one
is_retry_AnyErrorStatus(resp, total) ==
    \/ resp.status >= 400
    \/ total # 0 /\ resp.retry_after /\ resp.status \in RetryAfterStatusCodes

\* urllib3 Retry.is_retry for a GET, with `total` retries left
is_retry(resp, total) ==
    \/ resp.status \in StatusForcelist
    \/ total # 0 /\ resp.retry_after /\ resp.status \in RetryAfterStatusCodes

(***************************************************************************)
(* Exceptions and what the client makes of the outcome of session.request. *)
(***************************************************************************)
Exc(type, message, status_code) ==
    [type |-> type, message |-> message, status_code |-> status_code]
NoExc == Exc("none", <<>>, JNull)
Raise(e)  == [ok |-> FALSE, isList |-> FALSE, items |-> <<>>, exc |-> e]
Value(isList, items) ==
    [ok |-> TRUE, isList |-> isList, items |-> items, exc |-> NoExc]

\* requests.Response.__bool__ is Response.ok: false for every status >= 400
ResponseBool(resp) == resp.status < 400

\* str(e) of the HTTPError that raise_for_status raises
StrHTTPError(resp) == <<ToString(resp.status), " Error">>

\* the except clause for HTTPError of _make_request
HTTPErrorBranch(resp) ==
    LET status_code == IF ResponseBool(resp) THEN JInt(resp.status) ELSE JNull
        \* e.response.json() if e.response else {}; a body that does not
        \* decode raises and the bare except falls back to str(e)
        error_message ==
            IF ResponseBool(resp) /\ resp.body.shape = "error_obj"
            THEN <<resp.body.msg>>
            ELSE StrHTTPError(resp)
    IN  Exc("UberAdsAPIError", <<"Uber Ads API error: ">> \o error_message,
            status_code)

\* _make_request without the test of response.content: the empty body goes
\* to response.json()
make_request_DecodesEmpty(final) ==
    CASE final.kind = "RetryError" ->
           Raise(Exc("UberAdsAPIError", <<"Request error: ", "RetryError">>, JNull))
      [] final.kind = "ConnectionError" ->
           Raise(Exc("UberAdsAPIError", <<"Request error: ", "ConnectionError">>, JNull))
      [] OTHER ->
           IF final.resp.status >= 400 THEN Raise(HTTPErrorBranch(final.resp))
           ELSE IF final.resp.body.shape \in {"empty", "notjson"}
                THEN Raise(Exc("UberAdsAPIError",
                               <<"Request error: ", "JSONDecodeError">>, JNull))
           ELSE [ok |-> TRUE, exc |-> NoExc, body |-> final.resp.body]

\* _make_request after session.request: final.kind is "response" (a response
\* came back), "RetryError" (retries exhausted on a status of the forcelist)
\* or "ConnectionError" (retries exhausted on connection failures).  A body
\* that does not decode raises requests' JSONDecodeError, a RequestException.
\* The value is the decoded body.
make_request(final) ==
    CASE final.kind = "RetryError" ->
           Raise(Exc("UberAdsAPIError", <<"Request error: ", "RetryError">>, JNull))
      [] final.kind = "ConnectionError" ->
           Raise(Exc("UberAdsAPIError", <<"Request error: ", "ConnectionError">>, JNull))
      [] OTHER ->
           IF final.resp.status >= 400 THEN Raise(HTTPErrorBranch(final.resp))
           ELSE IF final.resp.body.shape = "empty"
                THEN [ok |-> TRUE, exc |-> NoExc,
                      body |-> [shape |-> "obj", items |-> <<EmptyObject>>, msg |-> ""]]
           ELSE IF final.resp.body.shape = "notjson"
                THEN Raise(Exc("UberAdsAPIError",
                               <<"Request error: ", "JSONDecodeError">>, JNull))
           ELSE [ok |-> TRUE, exc |-> NoExc, body |-> final.resp.body]

\* Entity(**raw) with status and budget_type taken as plain strings
EntityOk_NoLiterals(name, raw) == raw.complete

\* Entity(**raw): AdAccount and CampaignStats take any complete mapping (their
\* status is a plain str and budget_type an ignored extra key), Campaign also
\* wants its status and its budget_type in their Literals
EntityOk(name, raw) ==
    /\ raw.complete
    /\ name \in {"get_campaigns", "get_campaign_details"}
          => raw.status \in CampaignStatus /\ raw.budget_type \in BudgetTypes
\* the validated entity
Entity(raw) == [id |-> raw.id, name |-> raw.name, status |-> raw.status,
                budget_type |-> raw.budget_type]
\* model_dump without the name
model_dump_NoName(e) ==
    [id |-> e.id, name |-> "", status |-> e.status, budget_type |-> e.budget_type]

\* model_dump() of a validated entity: the JSON object of the payload
model_dump(e) == [id |-> e.id, name |-> e.name, status |-> e.status,
                  budget_type |-> e.budget_type]

FailedPrefix(name) ==
    CASE name = "get_ad_accounts"      -> "Failed to retrieve ad accounts: "
      [] name = "get_campaigns"        -> "Failed to retrieve campaigns: "
      [] name = "get_campaign_details" -> "Failed to retrieve campaign details: "
      [] name = "get_campaign_stats"   -> "Failed to retrieve campaign stats: "

\* a client operation without its "except Exception": the ValidationError of
\* Entity(**data) leaves the operation as it is
Wrap_ValidationErrorPassed(name, message) ==
    IF message = <<"ValidationError">>
    THEN Raise(Exc("ValidationError", message, JNull))
    ELSE Raise(Exc("UberAdsAPIError", <<FailedPrefix(name)>> \o message, JNull))

\* "except Exception as e: raise UberAdsAPIError(f'Failed to ...: {str(e)}')"
\* of every client operation: the status code of e is not passed on
Wrap(name, message) ==
    Raise(Exc("UberAdsAPIError", <<FailedPrefix(name)>> \o message, JNull))

\* the entities of the mappings of `items` that validate, the others skipped
Entities_SkipInvalid(name, isList, items) ==
    Value(isList, [i \in 1..Len(SelectSeq(items, LAMBDA x : EntityOk(name, x)))
                     |-> Entity(SelectSeq(items, LAMBDA x : EntityOk(name, x))[i])])

\* the entities of `items`, or the wrapped ValidationError of the first
\* mapping that is no entity
Entities(name, isList, items) ==
    IF \A i \in 1..Len(items) : EntityOk(name, items[i])
    THEN Value(isList, [i \in 1..Len(items) |-> Entity(items[i])])
    ELSE Wrap(name, <<"ValidationError">>)

\* the list-returning operations after _make_request:
\*   data = response_data.get("data", response_data)
\*   [E(**x) for x in data] if isinstance(data, list) else [E(**data)]
\* a body that is a bare list has no .get (AttributeError)
NormalizeList(name, body) ==
    CASE body.shape = "list"      -> Wrap(name, <<"AttributeError">>)
      [] body.shape = "data_list" -> Entities(name, TRUE, body.items)
      [] OTHER                    -> Entities(name, TRUE, <<body.items[1]>>)

\* get_campaign_details after _make_request: Campaign(**data); a list after
\* ** is a TypeError
NormalizeOne(name, body) ==
    CASE body.shape = "list"      -> Wrap(name, <<"AttributeError">>)
      [] body.shape = "data_list" -> Wrap(name, <<"TypeError">>)
      [] OTHER                    -> Entities(name, FALSE, <<body.items[1]>>)

\* a client operation from the outcome of session.request on
ClientResult(name, final) ==
    LET r == make_request(final)
    IN  IF ~r.ok THEN Wrap(name, r.exc.message)
        ELSE IF name = "get_campaign_details" THEN NormalizeOne(name, r.body)
        ELSE NormalizeList(name, r.body)

(***************************************************************************)
(* Tool dispatcher (server.py).                                            *)
(***************************************************************************)
ToolNames    == {"get_ad_accounts", "get_campaigns", "get_campaign_details",
                 "get_campaign_stats"}
UnknownNames == {"nonexistent_tool", "get_campaign"}

NoPayload == [isList |-> FALSE, items |-> <<>>]
ErrorEnvelope(text) == [isError |-> TRUE, text |-> text, payload |-> NoPayload]
\* CallToolResult(content=[TextContent(text=json.dumps(result_data))])
SuccessEnvelope(isList, items) ==
    [isError |-> FALSE, text |-> <<>>,
     payload |-> [isList |-> isList,
                  items  |-> [i \in 1..Len(items) |-> model_dump(items[i])]]]
NoEnvelope == [isError |-> FALSE, text |-> <<>>, payload |-> NoPayload]

\* ErrorPrefix with the text of get_campaigns copied into get_campaign_details
ErrorPrefix_Copied(name) ==
    CASE name = "get_ad_accounts"      -> "Error retrieving ad accounts: "
      [] name = "get_campaigns"        -> "Error retrieving campaigns: "
      [] name = "get_campaign_details" -> "Error retrieving campaigns: "
      [] name = "get_campaign_stats"   -> "Error retrieving campaign stats: "

ErrorPrefix(name) ==
    CASE name = "get_ad_accounts"      -> "Error retrieving ad accounts: "
      [] name = "get_campaigns"        -> "Error retrieving campaigns: "
      [] name = "get_campaign_details" -> "Error retrieving campaign details: "
      [] name = "get_campaign_stats"   -> "Error retrieving campaign stats: "

\* what a handler or call_tool ends with: kind "return" with the envelope, or
\* "raise" when the exception exc leaves it
Returned(envelope) == [kind |-> "return", envelope |-> envelope, exc |-> NoExc]
Raised(e)          == [kind |-> "raise", envelope |-> NoEnvelope, exc |-> e]
NoResult           == [kind |-> "none", envelope |-> NoEnvelope, exc |-> NoExc]

\* the classes an "except Exception" clause catches (all but the
\* BaseException-only ones: KeyboardInterrupt, SystemExit, CancelledError)
ExceptionTypes == {"ValidationError", "UberAdsAPIError", "TypeError",
                   "AttributeError"}

\* UnexpectedEnvelope built without isError=True
UnexpectedEnvelope_NoIsError(e) ==
    [isError |-> FALSE, text |-> <<"Unexpected error: ">> \o e.message,
     payload |-> NoPayload]

\* "except Exception" of every handler
UnexpectedEnvelope(e) == ErrorEnvelope(<<"Unexpected error: ">> \o e.message)

\* HandlerExcept without its clause for ValidationError
HandlerExcept_NoValidationClause(name, e) ==
    CASE e.type = "UberAdsAPIError" ->
           Returned(ErrorEnvelope(<<ErrorPrefix(name)>> \o e.message))
      [] e.type \in ExceptionTypes -> Returned(UnexpectedEnvelope(e))
      [] OTHER -> Raised(e)

\* the except clauses of a handler, in order; handle_get_ad_accounts has no
\* clause for ValidationError
HandlerExcept(name, e) ==
    CASE e.type = "ValidationError" /\ name # "get_ad_accounts" ->
           Returned(ErrorEnvelope(<<"Invalid arguments: ">> \o e.message))
      [] e.type = "UberAdsAPIError" ->
           Returned(ErrorEnvelope(<<ErrorPrefix(name)>> \o e.message))
      [] e.type \in ExceptionTypes -> Returned(UnexpectedEnvelope(e))
      [] OTHER -> Raised(e)

\* "except Exception" of call_tool, around the handlers
ToolExecutionFailed(e) == ErrorEnvelope(<<"Tool execution failed: ">> \o e.message)
call_tool_except(outcome) ==
    IF outcome.kind = "raise" /\ outcome.exc.type \in ExceptionTypes
    THEN Returned(ToolExecutionFailed(outcome.exc))
    ELSE outcome

\* UnknownTool with the text of the message alone
UnknownTool_NoName(n) == ErrorEnvelope(<<"Unknown tool: ">>)

\* the else branch of call_tool
UnknownTool(n) == ErrorEnvelope(<<"Unknown tool: ", n>>)

\* the argument record of a tool: Args(**arguments)
ArgsOf(name, m) ==
    CASE name = "get_campaigns"        -> GetCampaignsArgs(m)
      [] name = "get_campaign_details" -> GetCampaignDetailsArgs(m)
      [] name = "get_campaign_stats"   -> GetCampaignStatsArgs(m)
      [] OTHER -> [ok |-> TRUE, errs |-> <<>>, args |-> EmptyMap]

\* A handler up to the client's call of _make_request: the exception raised
\* before any request (NoExc when the request is issued).  ** of a value that
\* is no mapping is a TypeError; handle_get_ad_accounts takes no arguments.
Validate(name, arguments) ==
    IF name = "get_ad_accounts" THEN NoExc
    ELSE IF ~arguments.isMapping
         THEN Exc("TypeError", <<"argument after ** must be a mapping">>, JNull)
    ELSE IF ~ArgsOf(name, arguments.m).ok
         THEN Exc("ValidationError", ArgsOf(name, arguments.m).errs, JNull)
    ELSE NoExc

(***************************************************************************)
(* Inputs of an invocation.                                                *)
(***************************************************************************)
Mapping(m)  == [isMapping |-> TRUE, m |-> m]
\* arguments = None
NotAMapping == [isMapping |-> FALSE, m |-> EmptyMap]

IdLists == SeqsUpTo({"c1", "c2"}, MaxIds)

CampaignsArguments ==
    {MkMap(ch) : ch \in
        [ad_account_id : {Absent, JStr("acct-1"), JInt(7)},
         limit  : {Absent, JInt(0), JStr("10"), JStr("abc"), JNull},
         offset : {Absent, JInt(5)},
         status : {Absent, JStr("ACTIVE"), JStr("DRAFT")},
         bogus  : {Absent, JInt(1)}]}
DetailsArguments ==
    {MkMap(ch) : ch \in
        [ad_account_id : {Absent, JStr("acct-1"), JInt(7)},
         campaign_id   : {Absent, JStr("c1"), JNull},
         bogus         : {Absent, JInt(1)}]}
StatsArguments ==
    {MkMap(ch) : ch \in
        [ad_account_id : {Absent, JStr("acct-1")},
         campaign_ids  : {Absent, JStr("c1")} \cup {JList(l) : l \in IdLists},
         start_date    : {Absent, JStr("2024-01-01")},
         end_date      : {JStr("2024-01-31"), JInt(20240131)},
         metrics       : {Absent, JNull, JList(<<>>), JList(<<"clicks">>),
                          JStr("clicks")}]}

ArgumentsFor(name) ==
    {NotAMapping} \cup
    {Mapping(m) : m \in
        CASE name = "get_campaigns"        -> CampaignsArguments
          [] name = "get_campaign_details" -> DetailsArguments
          [] name = "get_campaign_stats"   -> StatsArguments
          [] OTHER -> {EmptyMap, MkMap([ad_account_id |-> JStr("acct-1")])}}

(***************************************************************************)
(* The Campaign entity in full (types.py): values with nested lists,       *)
(* mappings and model instances, and pydantic's validation and dump.       *)
(***************************************************************************)
VStr(s)      == [k |-> "str",    s |-> s,  n |-> 0, l |-> <<>>, o |-> EmptyMap]
VInt(n)      == [k |-> "int",    s |-> "", n |-> n, l |-> <<>>, o |-> EmptyMap]
\* a float, written in halves: VFloat(25) is 12.5
VFloat(h)    == [k |-> "float",  s |-> "", n |-> h, l |-> <<>>, o |-> EmptyMap]
VNull        == [k |-> "null",   s |-> "", n |-> 0, l |-> <<>>, o |-> EmptyMap]
VList(l)     == [k |-> "list",   s |-> "", n |-> 0, l |-> l,    o |-> EmptyMap]
\* a dict
VObj(o)      == [k |-> "obj",    s |-> "", n |-> 0, l |-> <<>>, o |-> o]
\* an instance of the model class cls with the field values o
VModel(cls, o) == [k |-> "model", s |-> cls, n |-> 0, l |-> <<>>, o |-> o]
\* marks a key that the mapping does not hold
VAbsent      == [k |-> "absent", s |-> "", n |-> 0, l |-> <<>>, o |-> EmptyMap]
VMap(ch)     == [f \in {g \in DOMAIN ch : ch[g] # VAbsent} |-> ch[f]]
Field(o, f)  == IF f \in DOMAIN o THEN o[f] ELSE VAbsent

\* the outcome of validating one value: the validated value, or an error
Valid(v) == [ok |-> TRUE, v |-> v]
Invalid  == [ok |-> FALSE, v |-> VNull]

\* the strings that lax mode parses as numbers, in halves
FloatStrings == {"12.5", "5"}
ParseHalves(s) == IF s = "12.5" THEN 25 ELSE 10

\* field: str
str_field(x) == IF x.k = "str" THEN Valid(x) ELSE Invalid
\* field: Optional[str] = None
opt_str_field(x) == IF x.k \in {"absent", "null"} THEN Valid(VNull) ELSE str_field(x)
\* field: Literal[...]
literal_field(x, allowed) ==
    IF x.k = "str" /\ x.s \in allowed THEN Valid(x) ELSE Invalid
\* an int in lax mode: an int, a float without fraction, a string of digits
int_value(x) ==
    CASE x.k = "int" -> Valid(x)
      [] x.k = "float" /\ x.n % 2 = 0 -> Valid(VInt(x.n \div 2))
      [] x.k = "str" /\ x.s \in FloatStrings /\ ParseHalves(x.s) % 2 = 0 ->
           Valid(VInt(ParseHalves(x.s) \div 2))
      [] OTHER -> Invalid
\* field: Optional[int] = None
opt_int_field(x) == IF x.k \in {"absent", "null"} THEN Valid(VNull) ELSE int_value(x)
\* field: Optional[float] = None, in lax mode: a float, an int, a numeric string
opt_float_field(x) ==
    CASE x.k \in {"absent", "null"} -> Valid(VNull)
      [] x.k = "float" -> Valid(x)
      [] x.k = "int"   -> Valid(VFloat(2 * x.n))
      [] x.k = "str" /\ x.s \in FloatStrings -> Valid(VFloat(ParseHalves(x.s)))
      [] OTHER -> Invalid
\* field: List[E]
list_field(x, elem(_)) ==
    IF x.k = "list" /\ \A i \in 1..Len(x.l) : elem(x.l[i]).ok
    THEN Valid(VList([i \in 1..Len(x.l) |-> elem(x.l[i]).v]))
    ELSE Invalid
\* field: Optional[List[E]] = None
opt_list_field(x, elem(_)) ==
    IF x.k \in {"absent", "null"} THEN Valid(VNull) ELSE list_field(x, elem)
\* field: Optional[Dict[str, int]] = None
opt_dict_int_field(x) ==
    CASE x.k \in {"absent", "null"} -> Valid(VNull)
      [] x.k = "obj" /\ \A f \in DOMAIN x.o : int_value(x.o[f]).ok ->
           Valid(VObj([f \in DOMAIN x.o |-> int_value(x.o[f]).v]))
      [] OTHER -> Invalid
\* a field of a model class: a dict, validated by the class, or an instance
model_value(x, cls(_)) ==
    CASE x.k = "obj"   -> cls(x.o)
      [] x.k = "model" -> cls(x.o)
      [] OTHER -> Invalid
opt_model_field(x, cls(_)) ==
    IF x.k \in {"absent", "null"} THEN Valid(VNull) ELSE model_value(x, cls)

\* cls(**o) from the outcomes of its fields (keys of o that are no field of
\* the class are ignored)
Model(cls, fields) ==
    IF \A f \in DOMAIN fields : fields[f].ok
    THEN Valid(VModel(cls, [f \in DOMAIN fields |-> fields[f].v]))
    ELSE Invalid

LocationTargeting(o) ==
    Model("LocationTargeting",
          [type   |-> literal_field(Field(o, "type"),
                                    {"city", "region", "country", "postal_code"}),
           value  |-> str_field(Field(o, "value")),
           radius |-> opt_int_field(Field(o, "radius"))])

DemographicTargeting(o) ==
    Model("DemographicTargeting",
          [age_min |-> opt_int_field(Field(o, "age_min")),
           age_max |-> opt_int_field(Field(o, "age_max")),
           genders |-> opt_list_field(Field(o, "genders"),
                          LAMBDA x : literal_field(x, {"male", "female", "all"}))])

CampaignTargeting(o) ==
    Model("CampaignTargeting",
          [locations    |-> opt_list_field(Field(o, "locations"),
                               LAMBDA x : model_value(x, LocationTargeting)),
           demographics |-> opt_model_field(Field(o, "demographics"),
                                            DemographicTargeting),
           interests    |-> opt_list_field(Field(o, "interests"), str_field),
           behaviors    |-> opt_list_field(Field(o, "behaviors"), str_field)])

CreativeAsset(o) ==
    Model("CreativeAsset",
          [id         |-> str_field(Field(o, "id")),
           type       |-> literal_field(Field(o, "type"), {"image", "video", "text"}),
           url        |-> opt_str_field(Field(o, "url")),
           text       |-> opt_str_field(Field(o, "text")),
           dimensions |-> opt_dict_int_field(Field(o, "dimensions"))])

CreativeSpec(o) ==
    Model("CreativeSpec",
          [id     |-> str_field(Field(o, "id")),
           name   |-> str_field(Field(o, "name")),
           type   |-> literal_field(Field(o, "type"), {"image", "video", "carousel"}),
           assets |-> list_field(Field(o, "assets"),
                                 LAMBDA x : model_value(x, CreativeAsset))])

\* Campaign(**o)
Campaign(o) ==
    Model("Campaign",
          [id              |-> str_field(Field(o, "id")),
           name            |-> str_field(Field(o, "name")),
           status          |-> literal_field(Field(o, "status"), CampaignStatus),
           objective       |-> str_field(Field(o, "objective")),
           budget_type     |-> literal_field(Field(o, "budget_type"), BudgetTypes),
           daily_budget    |-> opt_float_field(Field(o, "daily_budget")),
           lifetime_budget |-> opt_float_field(Field(o, "lifetime_budget")),
           start_time      |-> str_field(Field(o, "start_time")),
           end_time        |-> opt_str_field(Field(o, "end_time")),
           created_at      |-> str_field(Field(o, "created_at")),
           updated_at      |-> str_field(Field(o, "updated_at")),
           targeting       |-> opt_model_field(Field(o, "targeting"), CampaignTargeting),
           creative_specs  |-> opt_list_field(Field(o, "creative_specs"),
                                  LAMBDA x : model_value(x, CreativeSpec))])

\* BaseModel.model_dump(): every field of the instance, the nested model
\* instances as dicts
RECURSIVE dump_value(_)
dump_value(v) ==
    CASE v.k = "model" -> VObj([f \in DOMAIN v.o |-> dump_value(v.o[f])])
      [] v.k = "obj"   -> VObj([f \in DOMAIN v.o |-> dump_value(v.o[f])])
      [] v.k = "list"  -> VList([i \in 1..Len(v.l) |-> dump_value(v.l[i])])
      [] OTHER         -> v

\* model_dump(exclude={"creative_specs"})
Campaign_model_dump_NoCreativeSpecs(c) ==
    [f \in DOMAIN c.o \ {"creative_specs"} |-> dump_value(c.o[f])]

\* campaign.model_dump(): the mapping handed to json.dumps
Campaign_model_dump(c) == dump_value(c).o

\* the campaign mappings a response can hold
RawLocations ==
    {VObj(VMap([type |-> VStr("city"), value |-> VStr("SF"), radius |-> r])) :
        r \in {VAbsent, VStr("5"), VFloat(20)}}
RawTargetings ==
    {VAbsent, VNull, VObj(EmptyMap),
     VObj(VMap([demographics |->
                   VObj(VMap([age_min |-> VInt(18),
                              genders |-> VList(<<VStr("all")>>)])),
                interests |-> VList(<<VStr("food")>>)]))}
    \cup {VObj(VMap([locations |-> VList(<<loc>>)])) : loc \in RawLocations}
RawAssets ==
    {VObj(VMap([id |-> VStr("a1"), type |-> VStr(t), url |-> VStr("u"),
                dimensions |-> d])) :
        t \in {"image", "audio"},
        d \in {VAbsent, VObj(VMap([width |-> VInt(300), height |-> VStr("5")]))}}
RawCreativeSpecs ==
    {VAbsent, VList(<<>>)}
    \cup {VList(<<VObj(VMap([id |-> VStr("s1"), name |-> VStr("Spec"),
                             type |-> VStr("carousel"), assets |-> VList(as)]))>>) :
             as \in {<<>>} \cup {<<a>> : a \in RawAssets}}
RawCampaigns ==
    {VMap(ch) : ch \in
        [id : {VStr("c1")}, name : {VStr("Camp A")},
         status : {VStr("ACTIVE"), VStr("DRAFT"), VStr("DELETED")},
         objective : {VStr("REACH")},
         budget_type : {VStr("DAILY")},
         daily_budget : {VAbsent, VNull, VInt(100), VFloat(25), VStr("12.5")},
         start_time : {VStr("2024-01-01")},
         end_time : {VAbsent, VStr("2024-12-31")},
         created_at : {VStr("2023-12-01")},
         updated_at : {VAbsent, VStr("2023-12-02")},
         targeting : RawTargetings,
         creative_specs : RawCreativeSpecs,
         bogus : {VAbsent, VInt(1)}]}

\* no campaign mapping is being validated
NoRoundTrip ==
    [pc |-> "none", data |-> EmptyMap, c |-> Invalid, dumped |-> EmptyMap,
     again |-> Invalid]

(***************************************************************************)
(* State.                                                                  *)
(***************************************************************************)
VARIABLES
    pc,           \* "idle", "sending", "responded", "done"
    name,         \* the tool name of the invocation
    arguments,    \* its arguments
    request,      \* the request handed to _make_request, NoRequest before
    retries,      \* Retry.total: the retries still allowed
    attempts,     \* HTTP attempts sent for this invocation
    final,        \* the last answer of the remote and how session.request took it
    allForced,    \* every answer so far had a status of the forcelist
    transientOnly, \* every answer retried so far was a status of the forcelist
                  \* or a connection failure
    raised,       \* the exception the client operation raised, NoExc if none
    result,       \* what call_tool gave to the transport adapter
    tasks,        \* the invocations the event loop holds, one record each
    running,      \* the task the event loop is executing, 0 when it is free
    jar,          \* session.cookies of the shared client holds a cookie
    rt            \* a campaign mapping on its way through Campaign(**data),
                  \* model_dump() and Campaign(**data) again

\* the state of the one invocation that Spec follows
single == <<pc, name, arguments, request, retries, attempts, final, allForced,
            transientOnly, raised, result>>
\* the state of the invocations that SpecConcurrent follows
shared == <<tasks, running, jar>>
vars == <<single, shared, rt>>

NoFinal == [kind |-> "none", resp |-> ConnFail]

\* the invocations that call_tool serves as tasks of the one event loop
Tasks == {1, 2}
\* an invocation the transport adapter has not handed over yet
NewTask ==
    [pc |-> "new", name |-> "", arguments |-> NotAMapping, order |-> 0,
     request |-> NoRequest, cookie |-> FALSE, requests |-> 0,
     retries |-> RetryTotal, attempts |-> 0, answers |-> <<>>,
     final |-> NoFinal, result |-> NoResult]

InitServer ==
    /\ pc = "idle"
    /\ name = ""
    /\ arguments = NotAMapping
    /\ request = NoRequest
    /\ retries = RetryTotal
    /\ attempts = 0
    /\ final = NoFinal
    /\ allForced = TRUE
    /\ transientOnly = TRUE
    /\ raised = NoExc
    /\ result = NoResult
    /\ tasks = [i \in Tasks |-> NewTask]
    /\ running = 0
    /\ jar = FALSE

Init == InitServer /\ rt = NoRoundTrip

\* call_tool: dispatch on the name, then the handler up to the first HTTP
\* attempt (validation, options, query) or to its envelope
CallTool(n, a) ==
    /\ pc = "idle"
    /\ name' = n
    /\ arguments' = a
    /\ UNCHANGED <<retries, attempts, final, allForced, transientOnly, raised>>
    /\ UNCHANGED <<shared, rt>>
    /\ IF n \notin ToolNames
       THEN /\ result' = call_tool_except(Returned(UnknownTool(n)))
            /\ pc' = "done"
            /\ UNCHANGED request
       ELSE IF Validate(n, a) # NoExc
       THEN /\ result' = call_tool_except(HandlerExcept(n, Validate(n, a)))
            /\ pc' = "done"
            /\ UNCHANGED request
       ELSE /\ request' = RequestOf(n, ArgsOf(n, a.m).args)
            /\ pc' = "sending"
            /\ UNCHANGED result

\* one HTTP attempt of session.request(method, url, timeout=30), answered by
\* resp, and urllib3's decision: Retry.increment lowers total by one and the
\* retries are exhausted when total falls below 0
SendAttempt(resp) ==
    /\ pc = "sending"
    /\ attempts' = attempts + 1
    /\ allForced' = (allForced /\ resp.conn /\ resp.status \in StatusForcelist)
    /\ UNCHANGED <<name, arguments, request, raised, result>>
    /\ UNCHANGED <<shared, rt>>
    /\ IF ~resp.conn \/ is_retry(resp, retries)
       THEN /\ retries' = retries - 1
            /\ transientOnly' =
                 (transientOnly /\ (~resp.conn \/ resp.status \in StatusForcelist))
            /\ IF retries - 1 < 0
               THEN /\ final' = [kind |-> IF resp.conn THEN "RetryError"
                                          ELSE "ConnectionError",
                                 resp |-> resp]
                    /\ pc' = "responded"
               ELSE /\ final' = [kind |-> "retry", resp |-> resp]
                    /\ pc' = "sending"
       ELSE /\ final' = [kind |-> "response", resp |-> resp]
            /\ pc' = "responded"
            /\ UNCHANGED <<retries, transientOnly>>

\* the rest of _make_request, the client operation and the handler
Complete ==
    /\ pc = "responded"
    /\ LET r == ClientResult(name, final)
       IN  /\ raised' = r.exc
           /\ result' = call_tool_except(
                          IF r.ok THEN Returned(SuccessEnvelope(r.isList, r.items))
                          ELSE HandlerExcept(name, r.exc))
    /\ pc' = "done"
    /\ UNCHANGED <<name, arguments, request, retries, attempts, final, allForced,
                   transientOnly>>
    /\ UNCHANGED <<shared, rt>>

\* the envelope is with the transport adapter; the next invocation starts
\* from a fresh Retry and a fresh request
Return ==
    /\ pc = "done"
    /\ pc' = "idle"
    /\ name' = ""
    /\ arguments' = NotAMapping
    /\ request' = NoRequest
    /\ retries' = RetryTotal
    /\ attempts' = 0
    /\ final' = NoFinal
    /\ allForced' = TRUE
    /\ transientOnly' = TRUE
    /\ raised' = NoExc
    /\ result' = NoResult
    /\ UNCHANGED <<shared, rt>>

Next ==
    \/ \E n \in ToolNames \cup UnknownNames : \E a \in ArgumentsFor(n) : CallTool(n, a)
    \/ \E resp \in Responses : SendAttempt(resp)
    \/ Complete
    \/ Return

Spec == Init /\ [][Next]_vars

(***************************************************************************)
(* Several invocations on the one server_instance.  call_tool is a         *)
(* coroutine of the event loop of the process; all invocations use the one *)
(* UberAdsClient and its one requests.Session.                             *)
(***************************************************************************)
\* the calls the transport adapter hands over
TaskCalls ==
    {[name |-> "get_campaign_details",
      arguments |-> Mapping(MkMap([ad_account_id |-> JStr("acct-1"),
                                   campaign_id |-> JStr("c1")]))],
     [name |-> "get_campaign_stats",
      arguments |-> Mapping(MkMap([ad_account_id |-> JStr("acct-1"),
                                   campaign_ids |-> JList(<<"c2", "c1">>),
                                   start_date |-> JStr("2024-01-01"),
                                   end_date |-> JStr("2024-01-31"),
                                   metrics |-> JList(<<"clicks">>)]))],
     [name |-> "get_campaign_stats",
      arguments |-> Mapping(MkMap([ad_account_id |-> JStr("acct-1"),
                                   campaign_ids |-> JList(<<>>),
                                   start_date |-> JStr("2024-02-01"),
                                   end_date |-> JStr("2024-02-29"),
                                   metrics |-> JList(<<>>)]))],
     [name |-> "get_campaigns", arguments |-> Mapping(EmptyMap)],
     [name |-> "nonexistent_tool", arguments |-> Mapping(EmptyMap)]}

\* the answers of the remote to one attempt: the response, and whether it
\* carries a Set-Cookie header
TaskAnswers ==
    {a \in [resp : {ConnFail}
                   \cup {x \in Responses :
                           /\ x.conn /\ ~x.retry_after
                           /\ \/ /\ x.status = 200 /\ x.body.shape = "data_obj"
                                 /\ x.body.items[1].id = "e1"
                                 /\ x.body.items[1].complete
                                 /\ x.body.items[1].status = "ACTIVE"
                                 /\ x.body.items[1].budget_type = "DAILY"
                              \/ /\ x.status \in {404, 503}
                                 /\ x.body.shape = "error_obj"},
             set_cookie : BOOLEAN] :
        a.set_cookie => (a.resp.conn /\ a.resp.status = 200)}

\* a handler that gives the event loop to another task between the issue of
\* its request and its envelope
HandlerSuspends_AtRequest == TRUE

\* whether a handler gives the event loop to another task between the issue
\* of its request and its envelope: the handlers are coroutines, but they
\* call the client, and the client calls session.request, without any await
HandlerSuspends == FALSE

\* the transport adapter hands call c over: the event loop holds a task for it
Submit(i, c) ==
    /\ tasks[i].pc = "new"
    /\ tasks' = [tasks EXCEPT ![i].pc = "ready", ![i].name = c.name,
                               ![i].arguments = c.arguments]
    /\ UNCHANGED <<running, jar, single, rt>>

\* the event loop runs call_tool of task i, up to its envelope or up to the
\* first HTTP attempt; Session.request puts the cookies of the session into
\* the request it prepares
StartTask(i) ==
    /\ tasks[i].pc = "ready"
    /\ running = 0
    /\ LET t == tasks[i]
           o == 1 + Cardinality({j \in Tasks : tasks[j].order > 0})
       IN  IF t.name \notin ToolNames
           THEN /\ tasks' = [tasks EXCEPT ![i].pc = "done", ![i].order = o,
                       ![i].result = call_tool_except(Returned(UnknownTool(t.name)))]
                /\ UNCHANGED running
           ELSE IF Validate(t.name, t.arguments) # NoExc
           THEN /\ tasks' = [tasks EXCEPT ![i].pc = "done", ![i].order = o,
                       ![i].result = call_tool_except(
                           HandlerExcept(t.name, Validate(t.name, t.arguments)))]
                /\ UNCHANGED running
           ELSE /\ tasks' = [tasks EXCEPT ![i].pc = "sending", ![i].order = o,
                       ![i].request =
                           RequestOf(t.name, ArgsOf(t.name, t.arguments.m).args),
                       ![i].cookie = jar,
                       ![i].requests = t.requests + 1]
                /\ running' = IF HandlerSuspends THEN 0 ELSE i
    /\ UNCHANGED <<jar, single, rt>>

\* one HTTP attempt of task i, answered by a; Session.send stores the
\* cookies of the response that session.request returns
TaskAttempt(i, a) ==
    /\ tasks[i].pc = "sending"
    /\ running = IF HandlerSuspends THEN 0 ELSE i
    /\ LET t == tasks[i]
           retried == ~a.resp.conn \/ is_retry(a.resp, t.retries)
           exhausted == retried /\ t.retries - 1 < 0
       IN  /\ tasks' = [tasks EXCEPT
                  ![i].attempts = t.attempts + 1,
                  ![i].answers = Append(t.answers, a),
                  ![i].retries = IF retried THEN t.retries - 1 ELSE t.retries,
                  ![i].final =
                      [kind |-> IF ~retried THEN "response"
                                ELSE IF ~exhausted THEN "retry"
                                ELSE IF a.resp.conn THEN "RetryError"
                                ELSE "ConnectionError",
                       resp |-> a.resp],
                  ![i].pc = IF retried /\ ~exhausted THEN "sending" ELSE "responded"]
           /\ jar' = (jar \/ (~retried /\ a.set_cookie))
    /\ UNCHANGED <<running, single, rt>>

\* the rest of _make_request, the client operation and the handler of task
\* i; the event loop is free again
TaskComplete(i) ==
    /\ tasks[i].pc = "responded"
    /\ running = IF HandlerSuspends THEN 0 ELSE i
    /\ LET t == tasks[i]
           r == ClientResult(t.name, t.final)
       IN  tasks' = [tasks EXCEPT
               ![i].pc = "done",
               ![i].result = call_tool_except(
                   IF r.ok THEN Returned(SuccessEnvelope(r.isList, r.items))
                   ELSE HandlerExcept(t.name, r.exc))]
    /\ running' = 0
    /\ UNCHANGED <<jar, single, rt>>

NextConcurrent ==
    \/ \E i \in Tasks : \E c \in TaskCalls : Submit(i, c)
    \/ \E i \in Tasks : StartTask(i)
    \/ \E i \in Tasks : \E a \in TaskAnswers : TaskAttempt(i, a)
    \/ \E i \in Tasks : TaskComplete(i)

SpecConcurrent == Init /\ [][NextConcurrent]_vars

(***************************************************************************)
(* A campaign of a response on its way to the payload, and back.           *)
(***************************************************************************)
InitRoundTrip ==
    /\ InitServer
    /\ rt \in {[NoRoundTrip EXCEPT !.pc = "data", !.data = d] : d \in RawCampaigns}

\* get_campaign_details: Campaign(**data)
ValidateCampaign ==
    /\ rt.pc = "data"
    /\ rt' = [rt EXCEPT !.c = Campaign(rt.data),
                         !.pc = IF Campaign(rt.data).ok THEN "validated"
                                ELSE "rejected"]
    /\ UNCHANGED <<single, shared>>

\* handle_get_campaign_details: result_data = campaign.model_dump()
DumpCampaign ==
    /\ rt.pc = "validated"
    /\ rt' = [rt EXCEPT !.dumped = Campaign_model_dump(rt.c.v), !.pc = "dumped"]
    /\ UNCHANGED <<single, shared>>

\* Campaign(**result_data)
RevalidateCampaign ==
    /\ rt.pc = "dumped"
    /\ rt' = [rt EXCEPT !.again = Campaign(rt.dumped), !.pc = "revalidated"]
    /\ UNCHANGED <<single, shared>>

NextRoundTrip == ValidateCampaign \/ DumpCampaign \/ RevalidateCampaign

SpecRoundTrip == InitRoundTrip /\ [][NextRoundTrip]_vars

(***************************************************************************)
(* Properties.                                                             *)
(***************************************************************************)
ArgTools == {"get_campaigns", "get_campaign_details", "get_campaign_stats"}
Envelope == result.envelope
\* the envelope is an error envelope whose message starts with prefix
ErrorStartsWith(prefix) ==
    /\ result.kind = "return"
    /\ Envelope.isError
    /\ Envelope.text # <<>>
    /\ Head(Envelope.text) = prefix
\* an invocation is under way or has just ended
Invoked == pc # "idle"
\* no HTTP attempt was sent and no request was handed to _make_request
NoRemoteCall == attempts = 0 /\ request = NoRequest /\ final = NoFinal

\* C1: an invocation of get_campaigns, get_campaign_details or
\* get_campaign_stats whose argument mapping fails validation ends with an
\* error envelope whose message starts with "Invalid arguments: ", and at no
\* point of the invocation has an HTTP request been issued.
C1_InvalidArgumentsNoRequest ==
    (Invoked /\ name \in ArgTools /\ arguments.isMapping
       /\ ~ArgsOf(name, arguments.m).ok)
    => /\ pc = "done"
       /\ NoRemoteCall
       /\ ErrorStartsWith("Invalid arguments: ")
       /\ Len(Envelope.text) > 1

\* get_campaigns({}) : the required ad_account_id is missing
C1_Witness ==
    /\ pc = "done"
    /\ name = "get_campaigns"
    /\ arguments = Mapping(EmptyMap)
    /\ Envelope = ErrorEnvelope(<<"Invalid arguments: ", "ad_account_id">>)

\* the fields each tool declares, with the JSON types of a well-typed value
DeclaredTypes(n) ==
    CASE n = "get_campaigns" ->
           [ad_account_id |-> {"str"}, limit |-> {"int", "null"},
            offset |-> {"int", "null"}, status |-> {"str", "null"}]
      [] n = "get_campaign_details" ->
           [ad_account_id |-> {"str"}, campaign_id |-> {"str"}]
      [] n = "get_campaign_stats" ->
           [ad_account_id |-> {"str"}, campaign_ids |-> {"list"},
            start_date |-> {"str"}, end_date |-> {"str"},
            metrics |-> {"list", "null"}]
HasUndeclaredField(n, m) == \E f \in DOMAIN m : f \notin DOMAIN DeclaredTypes(n)
HasMistypedField(n, m) ==
    \E f \in DOMAIN m \cap DOMAIN DeclaredTypes(n) : m[f].k \notin DeclaredTypes(n)[f]

\* C2: an argument mapping that holds a field the tool does not declare, or a
\* declared field whose value has the wrong type, is rejected with an error
\* envelope before any remote call; no such invocation reaches the client.
C2_UnknownOrMistypedRejected ==
    (Invoked /\ name \in ArgTools /\ arguments.isMapping
       /\ (HasUndeclaredField(name, arguments.m) \/ HasMistypedField(name, arguments.m)))
    => /\ pc = "done"
       /\ NoRemoteCall
       /\ result.kind = "return" /\ Envelope.isError

\* C3: when the remote answers every attempt with a status of the transient
\* set, the invocation sends exactly 3 HTTP attempts, never a 4th, and ends
\* with an error envelope that starts with the tool's "Error retrieving"
\* prefix.
C3_ExactlyThreeAttempts ==
    (Invoked /\ attempts > 0 /\ allForced)
    => /\ attempts <= 3
       /\ pc \in {"responded", "done"} => attempts = 3
       /\ pc = "done" => ErrorStartsWith(ErrorPrefix(name))

\* the first answer of the remote is an error status that is not transient:
\* a 4xx other than 429
FirstAnswerNonTransient ==
    /\ attempts = 1
    /\ final.resp.conn
    /\ final.resp.status \in 400..499
    /\ final.resp.status # 429
\* the request was not retried and the operation has failed or is failing
\* with the remote error
FailsAtOnce ==
    /\ pc \in {"responded", "done"}
    /\ final.kind = "response"
    /\ pc = "done" => /\ raised.type = "UberAdsAPIError"
                      /\ ErrorStartsWith(ErrorPrefix(name))

Answered2xx == final.kind = "response" /\ final.resp.status < 400

\* C5: whatever the operation name, the argument value (a mapping or not) and
\* the behaviour of the remote, call_tool ends by returning one envelope: a
\* success envelope with a payload (only after a 2xx answer that the client
\* accepted), or an error envelope with isError true and a text message; no
\* exception leaves call_tool, and an invocation never sends more attempts
\* than the retry policy allows.
C5_AlwaysOneEnvelope ==
    /\ attempts <= RetryTotal + 1
    /\ pc = "done" =>
         /\ result.kind = "return"
         /\ result.exc = NoExc
         /\ Envelope.isError =>
              /\ Len(Envelope.text) >= 2
              /\ Envelope.payload = NoPayload
         /\ ~Envelope.isError =>
              /\ Envelope.text = <<>>
              /\ Answered2xx
              /\ raised = NoExc

\* arguments that are no mapping end in the handler's catch-all clause
C5_Witness ==
    /\ pc = "done"
    /\ name = "get_campaign_stats"
    /\ ~arguments.isMapping
    /\ ErrorStartsWith("Unexpected error: ")

\* C6: for every name that is none of the four tools and every argument value,
\* call_tool returns the error envelope with the message "Unknown tool: <name>",
\* validates nothing and issues no HTTP request.
C6_UnknownTool ==
    (Invoked /\ name \notin {"get_ad_accounts", "get_campaigns",
                             "get_campaign_details", "get_campaign_stats"})
    => /\ pc = "done"
       /\ NoRemoteCall
       /\ result.kind = "return"
       /\ Envelope = [isError |-> TRUE, text |-> <<"Unknown tool: ", name>>,
                      payload |-> NoPayload]

\* an unknown tool called with arguments that are not even a mapping
C6_Witness ==
    /\ pc = "done"
    /\ name = "nonexistent_tool"
    /\ arguments = NotAMapping
    /\ Envelope.text = <<"Unknown tool: ", "nonexistent_tool">>

QueryNames == {"limit", "offset", "status", "sort_by", "sort_order"}
\* C7: the query of get_campaigns holds exactly those of limit, offset,
\* status, sort_by, sort_order whose option is set (not None), each with the
\* option's value, and nothing else; limit and offset are sent whenever they
\* are present, their defaults 50 and 0 included.
C7_QueryHoldsEverySetOption ==
    (pc \in {"sending", "responded", "done"} /\ name = "get_campaigns"
       /\ request # NoRequest)
    => LET options == GetCampaignsOptions(GetCampaignsArgs(arguments.m).args)
       IN  /\ DOMAIN request.params \subseteq QueryNames
           /\ \A p \in QueryNames :
                IF options[p].k = "null" THEN p \notin DOMAIN request.params
                ELSE p \in DOMAIN request.params /\ request.params[p] = options[p]

ListTools == {"get_ad_accounts", "get_campaigns", "get_campaign_stats"}
\* a raw entity that the entity class of tool n accepts
ValidFor(n, raw) ==
    /\ raw.complete
    /\ n = "get_campaigns" =>
          /\ raw.status \in {"ACTIVE", "PAUSED", "ARCHIVED", "DRAFT"}
          /\ raw.budget_type \in {"DAILY", "LIFETIME"}
\* C8: for the three list-returning tools, a 2xx body that is one valid
\* entity, a list of valid entities, or either under "data", makes the
\* operation return a list: of one element for the single object, of the same
\* length and order for a list.  No such body makes the operation fail.
C8_EveryShapeYieldsAList ==
    (pc = "done" /\ name \in ListTools /\ Answered2xx
       /\ final.resp.body.shape \in {"obj", "list", "data_obj", "data_list"}
       /\ \A i \in 1..Len(final.resp.body.items) :
             ValidFor(name, final.resp.body.items[i]))
    => /\ raised = NoExc
       /\ ~Envelope.isError
       /\ Envelope.payload.isList
       /\ Len(Envelope.payload.items) = Len(final.resp.body.items)
       /\ \A i \in 1..Len(final.resp.body.items) :
             Envelope.payload.items[i].id = final.resp.body.items[i].id

Range(f) == {f[i] : i \in DOMAIN f}
\* C9: after a non-2xx answer with status S, the error the client raises is
\* an UberAdsAPIError with status_code S whose message holds M when the body
\* is {"error": {"message": M}} and the raw error text when the body does not
\* parse.
C9_ErrorCarriesMessageAndStatus ==
    (pc = "done" /\ final.kind = "response" /\ final.resp.status >= 400)
    => /\ raised.type = "UberAdsAPIError"
       /\ raised.status_code = JInt(final.resp.status)
       /\ final.resp.body.shape = "error_obj"
             => final.resp.body.msg \in Range(raised.message)
       /\ final.resp.body.shape = "notjson"
             => ToString(final.resp.status) \in Range(raised.message)

\* C10: when the client operation fails with an UberAdsAPIError, the envelope
\* is an error envelope whose message is the invoked tool's own prefix
\* followed by the message of that error.
C10_PrefixOfTheInvokedTool ==
    (pc = "done" /\ raised.type = "UberAdsAPIError")
    => /\ result.kind = "return"
       /\ Envelope.isError
       /\ Envelope.text =
            << CASE name = "get_ad_accounts"      -> "Error retrieving ad accounts: "
                 [] name = "get_campaigns"        -> "Error retrieving campaigns: "
                 [] name = "get_campaign_details" -> "Error retrieving campaign details: "
                 [] name = "get_campaign_stats"   -> "Error retrieving campaign stats: " >>
            \o raised.message

\* get_campaign_details failed on a 404 of the remote
C10_Witness ==
    /\ pc = "done"
    /\ name = "get_campaign_details"
    /\ final.kind = "response" /\ final.resp.status = 404
    /\ raised.type = "UberAdsAPIError"
    /\ Head(Envelope.text) = "Error retrieving campaign details: "

\* a campaign mapping of the remote that Campaign(**x) accepts
ValidCampaign(raw) ==
    /\ raw.complete
    /\ raw.status \in {"ACTIVE", "PAUSED", "ARCHIVED", "DRAFT"}
    /\ raw.budget_type \in {"DAILY", "LIFETIME"}
DataListAnswer ==
    pc = "done" /\ Answered2xx /\ final.resp.body.shape = "data_list"

\* C11: get_campaigns with valid arguments, answered 2xx by a body
\* {"data": [c1..cn]} whose elements are all valid campaigns, returns a
\* success envelope whose payload is a list of n campaign objects in the same
\* order, the i-th carrying the id, name and status of ci.
C11_CampaignsInOrder ==
    (DataListAnswer /\ name = "get_campaigns"
       /\ \A i \in 1..Len(final.resp.body.items) : ValidCampaign(final.resp.body.items[i]))
    => /\ result.kind = "return"
       /\ ~Envelope.isError
       /\ Envelope.payload.isList
       /\ Len(Envelope.payload.items) = Len(final.resp.body.items)
       /\ \A i \in 1..Len(final.resp.body.items) :
             /\ Envelope.payload.items[i].id = final.resp.body.items[i].id
             /\ Envelope.payload.items[i].name = final.resp.body.items[i].name
             /\ Envelope.payload.items[i].status = final.resp.body.items[i].status

\* get_campaigns answered with two valid campaigns, e2 before e1
C11_Witness ==
    /\ DataListAnswer /\ name = "get_campaigns"
    /\ Len(final.resp.body.items) = 2
    /\ ValidCampaign(final.resp.body.items[1]) /\ final.resp.body.items[1].id = "e2"
    /\ ValidCampaign(final.resp.body.items[2]) /\ final.resp.body.items[2].id = "e1"
    /\ ~Envelope.isError
    /\ Len(Envelope.payload.items) = 2

\* the elements of the answered list, whatever the shape of the 2xx body
AnsweredElements ==
    IF final.resp.body.shape \in {"data_list", "list", "obj", "data_obj"}
    THEN final.resp.body.items ELSE <<>>

\* C12: a list-returning tool whose answered list holds at least one element
\* that fails entity validation returns an error envelope that carries none
\* of the valid elements; a success envelope is returned only when every
\* element of the list validated.
C12_NoPartialResults ==
    (pc = "done" /\ Answered2xx /\ name \in ListTools)
    => /\ (\E i \in 1..Len(AnsweredElements) : ~ValidFor(name, AnsweredElements[i]))
            => /\ result.kind = "return"
               /\ Envelope.isError
               /\ Envelope.payload = NoPayload
       /\ (result.kind = "return" /\ ~Envelope.isError)
            => /\ \A i \in 1..Len(AnsweredElements) : ValidFor(name, AnsweredElements[i])
               /\ Len(Envelope.payload.items) = Len(AnsweredElements)

\* get_campaigns answered with a valid campaign followed by one whose status
\* is outside the Literal: the whole operation fails
C12_Witness ==
    /\ DataListAnswer /\ name = "get_campaigns"
    /\ Len(final.resp.body.items) = 2
    /\ ValidCampaign(final.resp.body.items[1])
    /\ final.resp.body.items[2].complete /\ final.resp.body.items[2].status = "DELETED"
    /\ Envelope.isError
    /\ Envelope.payload = NoPayload

\* C14: when a 2xx answer has an empty body, _make_request returns the empty
\* object {} and raises no decode error: the empty body never reaches the
\* JSON decoder, and what the operation then fails on is the validation of {}.
C14_EmptyBodyIsEmptyObject ==
    (pc \in {"responded", "done"} /\ Answered2xx /\ final.resp.body.shape = "empty")
    => /\ make_request(final).ok
       /\ make_request(final).body.items = <<EmptyObject>>
       /\ pc = "done" =>
             /\ "JSONDecodeError" \notin Range(raised.message)
             /\ "JSONDecodeError" \notin Range(Envelope.text)

\* get_campaign_details answered 200 with no body at all
C14_Witness ==
    /\ pc = "done"
    /\ name = "get_campaign_details"
    /\ Answered2xx /\ final.resp.body.shape = "empty"
    /\ raised.message = <<"Failed to retrieve campaign details: ", "ValidationError">>

\* C15: a get_campaigns status argument outside {ACTIVE, PAUSED, ARCHIVED}
\* gives an "Invalid arguments" error envelope and no remote call; a campaign
\* of the remote whose status is outside {ACTIVE, PAUSED, ARCHIVED, DRAFT} or
\* whose budget_type is outside {DAILY, LIFETIME} is never returned as a
\* validated Campaign: the operation fails.
C15_EnumeratedFieldsReject ==
    /\ (Invoked /\ name = "get_campaigns" /\ arguments.isMapping
          /\ "status" \in DOMAIN arguments.m
          /\ arguments.m["status"].k = "str"
          /\ arguments.m["status"].s \notin {"ACTIVE", "PAUSED", "ARCHIVED"})
       => /\ pc = "done"
          /\ NoRemoteCall
          /\ ErrorStartsWith("Invalid arguments: ")
    /\ (pc = "done" /\ Answered2xx
          /\ name \in {"get_campaigns", "get_campaign_details"}
          /\ \E i \in 1..Len(AnsweredElements) :
                \/ AnsweredElements[i].status
                      \notin {"ACTIVE", "PAUSED", "ARCHIVED", "DRAFT"}
                \/ AnsweredElements[i].budget_type \notin {"DAILY", "LIFETIME"})
       => /\ raised.type = "UberAdsAPIError"
          /\ result.kind = "return"
          /\ Envelope.isError
          /\ Envelope.payload = NoPayload

\* get_campaign_details answered with a complete campaign whose budget_type
\* is WEEKLY
C15_Witness ==
    /\ pc = "done"
    /\ name = "get_campaign_details"
    /\ Answered2xx /\ final.resp.body.shape = "data_obj"
    /\ final.resp.body.items[1].complete
    /\ final.resp.body.items[1].status = "ACTIVE"
    /\ final.resp.body.items[1].budget_type = "WEEKLY"
    /\ Envelope.isError

\* a 2xx body that is valid for tool n: one valid entity or a list of valid
\* entities, bare or under "data"; one campaign for get_campaign_details
ValidBody(n, body) ==
    /\ body.shape \in (IF n = "get_campaign_details" THEN {"obj", "data_obj"}
                       ELSE {"obj", "data_obj", "list", "data_list"})
    /\ \A i \in 1..Len(body.items) :
          /\ body.items[i].complete
          /\ n \in {"get_campaigns", "get_campaign_details"}
                => ValidCampaign(body.items[i])

\* C20: when the first k attempts (1 <= k <= 2) are answered with transient
\* statuses or connection failures and the next attempt with a 2xx carrying
\* a valid body, the invocation returns the success envelope built from that
\* body, with no trace of the earlier failures.
C20_RecoveryWithinBudget ==
    (pc = "done" /\ attempts \in {2, 3} /\ transientOnly
       /\ Answered2xx /\ ValidBody(name, final.resp.body))
    => /\ raised = NoExc
       /\ result.kind = "return"
       /\ ~Envelope.isError
       /\ Envelope.text = <<>>
       /\ Len(Envelope.payload.items) = Len(final.resp.body.items)
       /\ \A i \in 1..Len(final.resp.body.items) :
             /\ Envelope.payload.items[i].id = final.resp.body.items[i].id
             /\ Envelope.payload.items[i].status = final.resp.body.items[i].status

\* task i has passed the dispatch of call_tool
Dispatched(i) == tasks[i].pc \in {"sending", "responded", "done"}
\* the request of task i is with the remote: issued, and session.request has
\* not returned or raised yet
InFlight(i) == tasks[i].pc = "sending"

\* C13: every invocation calls _make_request at most once: exactly once when
\* the tool name is recognized and the arguments pass validation, never
\* otherwise (and then no HTTP attempt is sent); and a request, with all its
\* retries, is complete before the request of another invocation of the same
\* server is issued: no two requests are in flight together.
C13_OneRequestAtATime ==
    /\ \A i \in Tasks :
          /\ tasks[i].requests <= 1
          /\ Dispatched(i) =>
                tasks[i].requests =
                   (IF /\ tasks[i].name \in {"get_ad_accounts", "get_campaigns",
                                             "get_campaign_details", "get_campaign_stats"}
                       /\ Validate(tasks[i].name, tasks[i].arguments) = NoExc
                    THEN 1 ELSE 0)
          /\ tasks[i].requests = 0 => tasks[i].attempts = 0
    /\ \A i, j \in Tasks : (InFlight(i) /\ InFlight(j)) => i = j
    /\ \A i, j \in Tasks :
          (InFlight(i) /\ j # i /\ tasks[j].requests = 1) => tasks[j].pc = "done"

\* a request was retried three times and answered, and the request of the
\* other invocation is issued after it
C13_Witness ==
    /\ tasks[1].pc = "done" /\ tasks[1].order = 1
    /\ tasks[1].requests = 1 /\ tasks[1].attempts = 4
    /\ InFlight(2) /\ tasks[2].order = 2
    /\ tasks[2].requests = 1 /\ tasks[2].attempts = 1

\* the query of a get_campaign_stats request, from the arguments alone
StatsQueryOf(m) ==
    [p \in {"start_date", "end_date"}
          \cup (IF m["campaign_ids"].l # <<>> THEN {"campaign_ids"} ELSE {})
          \cup (IF "metrics" \in DOMAIN m /\ m["metrics"].k = "list"
                    /\ m["metrics"].l # <<>> THEN {"metrics"} ELSE {})
       |-> m[p]]

\* C16: the query of get_campaign_stats holds start_date and end_date with
\* the given values, the entries of campaign_ids in their order (no such
\* parameter when the list is empty), the entries of metrics only when
\* metrics is given and not empty, and no other parameter; this holds of a
\* call whatever the same client was called with before.
C16_StatsQuery ==
    \A i \in Tasks :
       (Dispatched(i) /\ tasks[i].name = "get_campaign_stats"
          /\ tasks[i].requests = 1)
       => /\ tasks[i].request.params = StatsQueryOf(tasks[i].arguments.m)
          /\ DOMAIN tasks[i].request.params
                \subseteq {"start_date", "end_date", "campaign_ids", "metrics"}

\* a call with two campaign ids and a metric has been answered; the next
\* call on the same client, with no campaign id and no metric, sends the two
\* dates alone
C16_Witness ==
    /\ tasks[1].pc = "done" /\ tasks[1].order = 1
    /\ tasks[1].name = "get_campaign_stats"
    /\ DOMAIN tasks[1].request.params
          = {"start_date", "end_date", "campaign_ids", "metrics"}
    /\ tasks[1].request.params["campaign_ids"] = JList(<<"c2", "c1">>)
    /\ tasks[1].request.params["metrics"] = JList(<<"clicks">>)
    /\ tasks[2].pc = "sending" /\ tasks[2].order = 2
    /\ tasks[2].name = "get_campaign_stats"
    /\ DOMAIN tasks[2].request.params = {"start_date", "end_date"}
    /\ tasks[2].request.params["start_date"] = JStr("2024-02-01")

\* the invocations of tasks i and j ran one after the other, i first
OneAfterTheOther(i, j) ==
    /\ tasks[i].pc = "done" /\ tasks[j].pc = "done"
    /\ tasks[i].order = 1 /\ tasks[j].order = 2

\* C18: two get_campaign_details invocations with the same ad_account_id and
\* campaign_id, one after the other on the same server, which the remote
\* answers in the same way, return identical envelopes, and the second sends
\* the request the first sent: the first leaves nothing behind that changes
\* the request or the result of the second.
C18_Idempotence ==
    \A i, j \in Tasks :
       (/\ OneAfterTheOther(i, j)
        /\ tasks[i].name = "get_campaign_details"
        /\ tasks[j].name = "get_campaign_details"
        /\ tasks[i].arguments = tasks[j].arguments
        /\ tasks[i].answers = tasks[j].answers)
       => /\ tasks[j].result = tasks[i].result
          /\ tasks[j].request = tasks[i].request
          /\ tasks[j].cookie = tasks[i].cookie
          /\ tasks[j].attempts = tasks[i].attempts

\* session.request on a session of its own, answered by answers[k], ... with
\* `total` retries left: how the request ends
RECURSIVE SoloFinal(_, _, _)
SoloFinal(answers, k, total) ==
    LET resp == answers[k].resp
    IN  IF ~resp.conn \/ is_retry(resp, total)
        THEN IF total - 1 < 0
             THEN [kind |-> IF resp.conn THEN "RetryError" ELSE "ConnectionError",
                   resp |-> resp]
             ELSE IF k = Len(answers) THEN [kind |-> "retry", resp |-> resp]
             ELSE SoloFinal(answers, k + 1, total - 1)
        ELSE [kind |-> "response", resp |-> resp]

\* what call_tool(n, a) returns when it is the only invocation of a server
\* just constructed and the remote answers its attempts with `answers`
SoloResult(n, a, answers) ==
    IF n \notin {"get_ad_accounts", "get_campaigns", "get_campaign_details",
                 "get_campaign_stats"}
    THEN call_tool_except(Returned(UnknownTool(n)))
    ELSE IF Validate(n, a) # NoExc
    THEN call_tool_except(HandlerExcept(n, Validate(n, a)))
    ELSE LET r == ClientResult(n, SoloFinal(answers, 1, 3))
         IN  call_tool_except(IF r.ok THEN Returned(SuccessEnvelope(r.isList, r.items))
                              ELSE HandlerExcept(n, r.exc))

\* C19: whatever the two invocations of the one server and however their
\* steps interleave, each sends the request and returns the envelope it
\* would send and return alone on a server just constructed, and the state
\* they share (the client with its configuration, credential, headers and
\* retry policy, the session) is never written.
C19_NoInterference ==
    /\ jar = FALSE
    /\ \A i \in Tasks :
          tasks[i].pc = "done" =>
             /\ tasks[i].result =
                   SoloResult(tasks[i].name, tasks[i].arguments, tasks[i].answers)
             /\ tasks[i].requests = 1 =>
                   /\ tasks[i].request =
                         RequestOf(tasks[i].name,
                                   ArgsOf(tasks[i].name, tasks[i].arguments.m).args)
                   /\ tasks[i].cookie = FALSE

\* C17: for every validated Campaign c, whatever optional fields the
\* response left out and whatever it nests as targeting and creative specs,
\* validating the mapping that model_dump gives of c yields a Campaign equal
\* to c.
C17_RoundTrip ==
    /\ rt.pc \in {"validated", "dumped", "revalidated"} => rt.c.ok
    /\ rt.pc \in {"dumped", "revalidated"} =>
          DOMAIN rt.dumped = DOMAIN rt.c.v.o
    /\ rt.pc = "revalidated" =>
          /\ rt.again.ok
          /\ rt.again.v = rt.c.v

\* a campaign without end_time, with a budget given as a string, a location
\* whose radius is a string, a creative spec with an asset, and a key that is
\* no field of Campaign, has gone round
C17_Witness ==
    /\ rt.pc = "revalidated"
    /\ "end_time" \notin DOMAIN rt.data
    /\ "bogus" \in DOMAIN rt.data
    /\ rt.c.v.o["end_time"] = VNull
    /\ rt.c.v.o["daily_budget"] = VFloat(25)
    /\ rt.data # rt.dumped
    /\ rt.c.v.o["targeting"].k = "model"
    /\ rt.c.v.o["targeting"].o["locations"].k = "list"
    /\ rt.c.v.o["targeting"].o["locations"].l[1].o["radius"] = VInt(5)
    /\ rt.c.v.o["creative_specs"].k = "list"
    /\ Len(rt.c.v.o["creative_specs"].l) = 1
    /\ Len(rt.c.v.o["creative_specs"].l[1].o["assets"].l) = 1
    /\ rt.dumped["targeting"].k = "obj"
    /\ rt.again.v = rt.c.v

\* the request of the invocation failed: no 2xx answer came back, or the 2xx
\* body is empty, does not decode, is no mapping, holds a list where one
\* campaign is expected, or holds an element that lacks required fields or
\* has a value its entity class rejects
RequestFailed ==
    \/ final.kind \in {"RetryError", "ConnectionError"}
    \/ final.kind = "response" /\ final.resp.status >= 400
    \/ /\ Answered2xx
       /\ \/ final.resp.body.shape \in {"empty", "notjson", "list"}
          \/ name = "get_campaign_details" /\ final.resp.body.shape = "data_list"
          \/ \E i \in 1..Len(AnsweredElements) :
                \/ ~AnsweredElements[i].complete
                \/ /\ name \in {"get_campaigns", "get_campaign_details"}
                   /\ ~ValidCampaign(AnsweredElements[i])

\* C21: an error envelope that starts with "Invalid arguments: " is returned
\* only when the arguments of the tool failed validation and no HTTP request
\* was issued; once a request has been issued, every failure, a 2xx answer
\* with an empty body, with a body that is no mapping or with an element that
\* lacks required fields included, is an UberAdsAPIError of the client and
\* is reported with the "Error retrieving ...: " prefix of the tool, never as
\* "Invalid arguments" and never as a success.
C21_InvalidArgumentsOnlyBeforeRequest ==
    /\ (pc = "done" /\ ErrorStartsWith("Invalid arguments: "))
       => /\ name \in {"get_campaigns", "get_campaign_details", "get_campaign_stats"}
          /\ arguments.isMapping
          /\ ~ArgsOf(name, arguments.m).ok
          /\ attempts = 0
          /\ request = NoRequest
    /\ (pc = "done" /\ attempts > 0)
       => /\ result.kind = "return"
          /\ Envelope.isError = RequestFailed
          /\ Envelope.isError =>
                /\ raised.type = "UberAdsAPIError"
                /\ Envelope.payload = NoPayload
                /\ Len(Envelope.text) > 1
                /\ Head(Envelope.text) =
                      (CASE name = "get_ad_accounts" -> "Error retrieving ad accounts: "
                         [] name = "get_campaigns" -> "Error retrieving campaigns: "
                         [] name = "get_campaign_details" ->
                              "Error retrieving campaign details: "
                         [] name = "get_campaign_stats" ->
                              "Error retrieving campaign stats: ")

\* get_campaigns answered 200 with an empty body: {} is no campaign
C21_Witness ==
    /\ pc = "done"
    /\ name = "get_campaigns"
    /\ attempts = 1
    /\ Answered2xx /\ final.resp.body.shape = "empty"
    /\ Envelope = ErrorEnvelope(<<"Error retrieving campaigns: ",
                                  "Failed to retrieve campaigns: ", "ValidationError">>)

====
